---------------------------- MODULE Spec2Model ----------------------------
(***************************************************************************)
(* A model of the two pytorch-lightning training modules of lmtuners:      *)
(*   LMTrainingModule      (transformers_trainers/lightning_modules/lm.py) *)
(*   DiscLMTrainingModule  (lmtuners/lightning_modules/discriminative_lm.py)*)
(*                                                                         *)
(* Tensors of shape [B,T] are sequences of B rows of T integers.  The      *)
(* wrapped transformer models, the categorical sampler, the filesystem and *)
(* the trainer are the environment: what they return is drawn from small   *)
(* sets, what the modules do with it is computed as the code computes it.  *)
(* Losses are integers (fixed-point units of loss).                        *)
(***************************************************************************)
EXTENDS Integers, Sequences, FiniteSets, TLC

VARIABLES
    module,            \* which module the trainer fits: "lm" or "disc"
    config,            \* self.config, the module's hyper-parameters
    checkpoint_fn,     \* TRUE when an external checkpoint callback was given
    batch,             \* the caller's tensors: [inputs |-> I, labels |-> L]
    model_ret,         \* what the wrapped models and the sampler return
    result,            \* what the last hook returned, or that it raised
    calls,             \* the wrapped-model invocations of the last hook
    global_step,       \* trainer.global_step
    current_epoch,     \* trainer.current_epoch
    last_epoch,        \* the position of the learning-rate schedule
    lr_log,            \* the scalars given to logger.experiment.add_scalar
    trainer_pc,        \* the trainer's position in its loop
    named_parameters,  \* the named parameters of the wrapped models
    optimizers,        \* what configure_optimizers returned
    vpc,               \* each replica's position inside validation_end
    fs,                \* the directories that exist on the shared filesystem
    vlog               \* each replica's filesystem and callback operations

vars == <<module, config, checkpoint_fn, batch, model_ret, result, calls,
          global_step, current_epoch, last_epoch, lr_log, trainer_pc,
          named_parameters, optimizers, vpc, fs, vlog>>

-----------------------------------------------------------------------------
(* Bounds of the model and constants of the program.                       *)

\* the largest number of positions B*T of a batch
MaxCells == 3

\* the largest loss value a wrapped model returns
MaxLoss == 2

\* the largest d_loss_weight besides the default
MaxWeight == 3

\* config.num_steps, which is also the trainer's max_steps
MaxSteps == 3

\* the largest number of epochs the trainer runs
MaxEpochs == 2

\* the number of data-parallel replicas
NumReplicas == 2

\* the label value that marks a position excluded from the loss
Sentinel == -100

\* the default of DiscLMTrainingModuleConfig.d_loss_weight
DefaultDLossWeight == 50

\* token ids 0 .. vocab_size-1
Vocab == {0, 1}

\* Python's None
None == "None"

-----------------------------------------------------------------------------
(* Tensors.                                                                *)

RECURSIVE Flatten(_)
\* t.view(-1): the rows of t one after the other
Flatten(t) == IF t = <<>> THEN <<>> ELSE Head(t) \o Flatten(Tail(t))

\* flat.view(rows, -1): consecutive runs of Len(flat) / rows elements
View(flat, rows) ==
    LET cols == Len(flat) \div rows
    IN  [i \in 1..rows |-> SubSeq(flat, (i - 1) * cols + 1, i * cols)]

\* t.eq(v): the boolean tensor of the positions of t that hold v
Eq(t, v) == [i \in DOMAIN t |-> [j \in DOMAIN t[i] |-> t[i][j] = v]]

\* t.ne(v)
Ne(t, v) == [i \in DOMAIN t |-> [j \in DOMAIN t[i] |-> t[i][j] # v]]

\* a == b, elementwise
EqT(a, b) == [i \in DOMAIN a |-> [j \in DOMAIN a[i] |-> a[i][j] = b[i][j]]]

\* mask.long(): True becomes 1, False becomes 0
Long(mask) ==
    [i \in DOMAIN mask |-> [j \in DOMAIN mask[i] |-> IF mask[i][j] THEN 1 ELSE 0]]

RECURSIVE SelectFlat(_, _)
SelectFlat(vals, m) ==
    IF vals = <<>> THEN <<>>
    ELSE (IF Head(m) THEN <<Head(vals)>> ELSE <<>>)
         \o SelectFlat(Tail(vals), Tail(m))

\* t[mask]: the selected elements of t as a flat tensor, in row-major order
MaskedSelect(t, mask) == SelectFlat(Flatten(t), Flatten(mask))

\* the number of True among the first k elements of the flat mask m
TrueUpTo(m, k) == Cardinality({q \in 1..k : m[q]})

\* t[mask] = vals: the k-th selected position of t receives vals[k]
MaskedAssign(t, mask, vals) ==
    LET ft == Flatten(t)
        fm == Flatten(mask)
        new == [k \in 1..Len(ft) |-> IF fm[k] THEN vals[TrueUpTo(fm, k)] ELSE ft[k]]
    IN  IF t = <<>> THEN t ELSE View(new, Len(t))

\* t[mask] = v for a scalar v
MaskedFill(t, mask, v) ==
    [i \in DOMAIN t |-> [j \in DOMAIN t[i] |-> IF mask[i][j] THEN v ELSE t[i][j]]]

\* torch.sum of a flat boolean tensor
SumTrue(flat) == Cardinality({k \in 1..Len(flat) : flat[k]})

RECURSIVE Gcd(_, _)
Gcd(a, b) == IF b = 0 THEN a ELSE Gcd(b, a % b)

\* the float 0/0
NaN == <<0, 0>>

\* the float n / d for integers n >= 0, d >= 0, as a reduced fraction;
\* 0.0 / 0 is nan and raises nothing
FloatDiv(n, d) ==
    IF d = 0 THEN NaN ELSE <<n \div Gcd(n, d), d \div Gcd(n, d)>>

-----------------------------------------------------------------------------
(* The learning-rate schedule and its log (both modules).                  *)

\* a - b when that is positive, else 0
Monus(a, b) == IF a > b THEN a - b ELSE 0

\* the multiplier of get_linear_schedule_with_warmup at position step:
\* step / max(1, warmup) below warmup, then
\* max(0, (total - step) / max(1, total - warmup))
LrLambda(step, warmup, total) ==
    IF step < warmup
    THEN FloatDiv(step, IF warmup > 1 THEN warmup ELSE 1)
    ELSE FloatDiv(Monus(total, step),
                  IF total - warmup > 1 THEN total - warmup ELSE 1)

\* scheduler.get_lr(): one rate per parameter group, each the group's base
\* rate (config.learning_rate for both) times the multiplier at the position
GetLr(position, opt, cfg) ==
    [i \in 1..Len(opt.groups) |->
        LrLambda(position, cfg.warmup_steps, cfg.num_steps)]

\* for i, lr in enumerate(rates): add_scalar(f'lr_{i}', lr, global_step)
AddScalars(log, rates, step) ==
    log \o [i \in 1..Len(rates) |->
                [tag |-> <<"lr", i - 1>>, value |-> rates[i], step |-> step]]

\* a mutant of Disc_log_and_step_lr: scheduler.step() with no argument
Disc_log_and_step_lr_increment(position, log, step, opt, cfg) ==
    [last_epoch |-> position + 1,
     lr_log     |-> AddScalars(log, GetLr(position + 1, opt, cfg), step)]

\* DiscLMTrainingModule._log_and_step_lr: scheduler.step(epoch=global_step)
\* sets the position to the global step, then every group's rate is logged
Disc_log_and_step_lr(position, log, step, opt, cfg) ==
    [last_epoch |-> step,
     lr_log     |-> AddScalars(log, GetLr(step, opt, cfg), step)]

\* LMTrainingModule._log_lr: logs every group's rate, steps nothing
LM_log_lr(position, log, step, opt, cfg) ==
    [last_epoch |-> position,
     lr_log     |-> AddScalars(log, GetLr(position, opt, cfg), step)]

-----------------------------------------------------------------------------
(* DiscLMTrainingModule.forward.                                           *)
(* Tensors live in a store keyed by the name of their storage, so that a   *)
(* write through one variable is seen through every variable bound to the *)
(* same storage.                                                           *)

\* a mutant of Clone: d = t binds the same storage instead of copying it
CloneAliased(mem, src, dst) == [ref |-> src, mem |-> mem]

\* t.clone(): fresh storage dst holding the values of src
Clone(mem, src, dst) ==
    [ref |-> dst,
     mem |-> [x \in (DOMAIN mem) \cup {dst} |->
                 IF x = dst THEN mem[src] ELSE mem[x]]]

\* mask = labels.eq(-100)
ReplacedMask(labels) == Eq(labels, Sentinel)

\* a mutant of Raises: the failure of a model call is swallowed
RaisesNever(fault, model) == FALSE

\* g_loss, g_logits = self.generator(...) and d_loss, d_scores =
\* self.discriminator(...) stand in no try block: the call of `model` leaves
\* forward by its exception exactly when it is the call that fails
Raises(fault, model) == fault = model

\* forward(inputs, labels, attention_mask); ret is what the generator, the
\* sampler and the discriminator return on this batch, the discriminator's
\* scores as their argmax.  The attention mask is handed to both models
\* untouched and is not modelled.
Disc_forward(b, ret) ==
    LET m0 == [inputs |-> b.inputs, labels |-> b.labels]
        c1 == Clone(m0, "inputs", "d_inputs")
        c2 == Clone(c1.mem, "labels", "d_labels")
        d_inputs == c1.ref
        d_labels == c2.ref
        m2 == c2.mem
        g_call == [model |-> "generator",
                   inputs |-> m2["inputs"], labels |-> m2["labels"]]
        \* torch.multinomial(sample_probs, 1).view(-1), then .view(B, -1)
        sampled_tokens == View(ret.sampled, Len(m2[d_inputs]))
        mask == ReplacedMask(m2["labels"])
        m3 == [m2 EXCEPT ![d_inputs] =
                  MaskedAssign(m2[d_inputs], mask,
                               MaskedSelect(sampled_tokens, mask))]
        correct_preds == EqT(sampled_tokens, m3["labels"])
        m4 == [m3 EXCEPT ![d_labels] = MaskedFill(m3[d_labels], correct_preds, 0)]
        \* d_labels = mask.long() rebinds the name to a new tensor
        new_d_labels == Long(mask)
        d_call == [model |-> "discriminator",
                   inputs |-> m4[d_inputs], labels |-> new_d_labels]
    IN  IF Raises(ret.fault, "generator")
        THEN [raised |-> TRUE, calls |-> <<g_call>>,
              inputs |-> m2["inputs"], labels |-> m2["labels"]]
        ELSE IF Raises(ret.fault, "discriminator")
        THEN [raised |-> TRUE, calls |-> <<g_call, d_call>>,
              inputs |-> m4["inputs"], labels |-> m4["labels"]]
        ELSE [raised |-> FALSE, calls |-> <<g_call, d_call>>,
              inputs |-> m4["inputs"], labels |-> m4["labels"],
              g_loss |-> ret.g_loss, d_loss |-> ret.d_loss,
              d_scores |-> ret.d_preds, d_labels |-> new_d_labels]

\* a mutant of TotalLoss: the discriminator loss is not weighted
TotalLossUnweighted(g_loss, weight, d_loss) == g_loss + d_loss

\* total_loss = g_loss + (self.config.d_loss_weight * d_loss)
TotalLoss(g_loss, weight, d_loss) == g_loss + (weight * d_loss)

\* acc = torch.sum(preds == d_labels) / np.prod(d_labels.shape): the two
\* operands of the division (its rounding is the tensor library's)
Disc_acc(preds, d_labels) ==
    [correct |-> SumTrue(Flatten(EqT(preds, d_labels))),
     total   |-> Len(Flatten(d_labels))]

\* DiscLMTrainingModule.training_step
Disc_training_step ==
    /\ module = "disc"
    /\ trainer_pc = "idle"
    /\ LET f == Disc_forward(batch, model_ret)
       IN  /\ batch' = [inputs |-> f.inputs, labels |-> f.labels]
           /\ calls' = f.calls
           /\ IF f.raised
              THEN /\ result' = [hook |-> "training_step", raised |-> TRUE]
                   /\ trainer_pc' = "raised"
                   /\ UNCHANGED <<last_epoch, lr_log>>
              ELSE LET total_loss == TotalLoss(f.g_loss, config.d_loss_weight, f.d_loss)
                       s == Disc_log_and_step_lr(last_epoch, lr_log, global_step,
                                                 optimizers, config)
                   IN  /\ last_epoch' = s.last_epoch
                       /\ lr_log' = s.lr_log
                       /\ trainer_pc' = "after_batch"
                       /\ result' = [hook |-> "training_step", raised |-> FALSE,
                                     loss |-> total_loss,
                                     d_loss |-> f.d_loss, g_loss |-> f.g_loss,
                                     d_acc |-> Disc_acc(f.d_scores, f.d_labels),
                                     d_labels |-> f.d_labels]
    /\ UNCHANGED <<module, config, checkpoint_fn, model_ret, global_step,
                   current_epoch, named_parameters, optimizers, vpc, fs, vlog>>

\* DiscLMTrainingModule.validation_step
Disc_validation_step ==
    /\ module = "disc"
    /\ trainer_pc = "idle"
    /\ LET f == Disc_forward(batch, model_ret)
       IN  /\ batch' = [inputs |-> f.inputs, labels |-> f.labels]
           /\ calls' = f.calls
           /\ IF f.raised
              THEN /\ result' = [hook |-> "validation_step", raised |-> TRUE]
                   /\ trainer_pc' = "raised"
              ELSE LET total_loss == TotalLoss(f.g_loss, config.d_loss_weight, f.d_loss)
                   IN  /\ trainer_pc' = "idle"
                       /\ result' = [hook |-> "validation_step", raised |-> FALSE,
                                     loss |-> total_loss,
                                     d_loss |-> f.d_loss, g_loss |-> f.g_loss,
                                     d_acc |-> Disc_acc(f.d_scores, f.d_labels),
                                     d_labels |-> f.d_labels]
    /\ UNCHANGED <<module, config, checkpoint_fn, model_ret, global_step,
                   current_epoch, last_epoch, lr_log, named_parameters,
                   optimizers, vpc, fs, vlog>>

-----------------------------------------------------------------------------
(* LMTrainingModule.forward, training_step and validation_step.            *)

\* a mutant of LM_accuracy: the sentinel positions are not filtered out
LM_accuracy_unmasked(preds, labels) ==
    LET correct_preds == Flatten(EqT(preds, labels))
    IN  FloatDiv(SumTrue(correct_preds), Len(correct_preds))

\* correct_preds = (preds == labels)[labels.ne(-100)]
\* acc = torch.sum(correct_preds).float() / correct_preds.numel()
LM_accuracy(preds, labels) ==
    LET correct_preds == MaskedSelect(EqT(preds, labels), Ne(labels, Sentinel))
    IN  FloatDiv(SumTrue(correct_preds), Len(correct_preds))

\* torch.exp(loss), left unevaluated
Exp(loss) == <<"exp", loss>>

\* forward: one call of the wrapped model, with masked_lm_labels=labels when
\* config.mlm and labels=labels otherwise; its outputs are returned as is
LM_forward(b, ret, cfg) ==
    LET call == [model |-> "model", inputs |-> b.inputs, labels |-> b.labels,
                 labels_as |-> IF cfg.mlm THEN "masked_lm_labels" ELSE "labels"]
    IN  IF ret.fault = "model"
        THEN [raised |-> TRUE, calls |-> <<call>>]
        ELSE [raised |-> FALSE, calls |-> <<call>>,
              loss |-> ret.loss, preds |-> ret.preds]

\* LMTrainingModule.training_step
LM_training_step ==
    /\ module = "lm"
    /\ trainer_pc = "idle"
    /\ LET outputs == LM_forward(batch, model_ret, config)
       IN  /\ calls' = outputs.calls
           /\ IF outputs.raised
              THEN /\ result' = [hook |-> "training_step", raised |-> TRUE]
                   /\ trainer_pc' = "raised"
                   /\ UNCHANGED <<last_epoch, lr_log>>
              ELSE LET acc == LM_accuracy(outputs.preds, batch.labels)
                       s == LM_log_lr(last_epoch, lr_log, global_step,
                                      optimizers, config)
                   IN  /\ last_epoch' = s.last_epoch
                       /\ lr_log' = s.lr_log
                       /\ trainer_pc' = "after_batch"
                       /\ result' = [hook |-> "training_step", raised |-> FALSE,
                                     loss |-> outputs.loss,
                                     perplexity |-> Exp(outputs.loss),
                                     acc |-> acc]
    /\ UNCHANGED <<module, config, checkpoint_fn, batch, model_ret, global_step,
                   current_epoch, named_parameters, optimizers, vpc, fs, vlog>>

\* LMTrainingModule.validation_step
LM_validation_step ==
    /\ module = "lm"
    /\ trainer_pc = "idle"
    /\ LET outputs == LM_forward(batch, model_ret, config)
       IN  /\ calls' = outputs.calls
           /\ IF outputs.raised
              THEN /\ result' = [hook |-> "validation_step", raised |-> TRUE]
                   /\ trainer_pc' = "raised"
              ELSE LET acc == LM_accuracy(outputs.preds, batch.labels)
                   IN  /\ trainer_pc' = "idle"
                       /\ result' = [hook |-> "validation_step", raised |-> FALSE,
                                     loss |-> outputs.loss, acc |-> acc]
    /\ UNCHANGED <<module, config, checkpoint_fn, batch, model_ret, global_step,
                   current_epoch, last_epoch, lr_log, named_parameters,
                   optimizers, vpc, fs, vlog>>

-----------------------------------------------------------------------------
(* configure_optimizers (both modules).  A parameter name is the sequence  *)
(* of its characters; a parameter is the pair <<model, name>>.             *)

\* "bias"
Marker_bias == <<"b", "i", "a", "s">>

\* "LayerNorm.weight"
Marker_LayerNorm_weight ==
    <<"L", "a", "y", "e", "r", "N", "o", "r", "m", ".", "w", "e", "i", "g", "h", "t">>

\* no_decay = ["bias", "LayerNorm.weight"]
no_decay == <<Marker_bias, Marker_LayerNorm_weight>>

\* a mutant of IsSubstring: the marker has to end the name
IsSuffix(nd, n) ==
    /\ Len(nd) <= Len(n)
    /\ SubSeq(n, Len(n) - Len(nd) + 1, Len(n)) = nd

\* nd in n, for strings: nd occurs somewhere in n
IsSubstring(nd, n) ==
    \E i \in 0..(Len(n) - Len(nd)) : SubSeq(n, i + 1, i + Len(nd)) = nd

\* any(nd in n for nd in no_decay)
AnyNoDecay(n) == \E k \in 1..Len(no_decay) : IsSubstring(no_decay[k], n)

\* model.named_parameters() as the pairs (n, p) with p = <<model, n>>
Params(np, model) == [k \in 1..Len(np[model]) |-> <<model, np[model][k]>>]

\* [p for n, p in model.named_parameters() if not any(...)]
Decayed(np, model) == SelectSeq(Params(np, model), LAMBDA p : ~AnyNoDecay(p[2]))

\* [p for n, p in model.named_parameters() if any(...)]
NotDecayed(np, model) == SelectSeq(Params(np, model), LAMBDA p : AnyNoDecay(p[2]))

\* LMTrainingModule.configure_optimizers: the two groups of the Lamb
\* optimizer and the scheduler, returned with interval 'step'
LM_optimizers(np, cfg) ==
    [groups |-> <<[params |-> Decayed(np, "model"),
                   weight_decay |-> cfg.weight_decay],
                  [params |-> NotDecayed(np, "model"),
                   weight_decay |-> 0]>>,
     scheduler |-> [num_warmup_steps |-> cfg.warmup_steps,
                    num_training_steps |-> cfg.num_steps,
                    interval |-> "step"]]

\* DiscLMTrainingModule.configure_optimizers: the scheduler is returned
\* bare, with no interval
Disc_optimizers(np, cfg) ==
    [groups |-> <<[params |-> Decayed(np, "generator")
                              \o Decayed(np, "discriminator"),
                   weight_decay |-> cfg.weight_decay],
                  [params |-> NotDecayed(np, "generator")
                              \o NotDecayed(np, "discriminator"),
                   weight_decay |-> 0]>>,
     scheduler |-> [num_warmup_steps |-> cfg.warmup_steps,
                    num_training_steps |-> cfg.num_steps,
                    interval |-> None]]

\* LMTrainingModule.configure_optimizers, called by the trainer before the
\* first batch; constructing the scheduler puts it at position 0
LM_configure_optimizers ==
    /\ module = "lm"
    /\ trainer_pc = "configure"
    /\ optimizers' = LM_optimizers(named_parameters, config)
    /\ last_epoch' = 0
    /\ trainer_pc' = "idle"
    /\ UNCHANGED <<module, config, checkpoint_fn, batch, model_ret, result,
                   calls, global_step, current_epoch, lr_log,
                   named_parameters, vpc, fs, vlog>>

\* DiscLMTrainingModule.configure_optimizers
Disc_configure_optimizers ==
    /\ module = "disc"
    /\ trainer_pc = "configure"
    /\ optimizers' = Disc_optimizers(named_parameters, config)
    /\ last_epoch' = 0
    /\ trainer_pc' = "idle"
    /\ UNCHANGED <<module, config, checkpoint_fn, batch, model_ret, result,
                   calls, global_step, current_epoch, lr_log,
                   named_parameters, vpc, fs, vlog>>

-----------------------------------------------------------------------------
(* Parameter names used as inputs.                                         *)

\* "layer.0.bias"
Name_layer_0_bias ==
    <<"l", "a", "y", "e", "r", ".", "0", ".", "b", "i", "a", "s">>

\* "layer.0.weight"
Name_layer_0_weight ==
    <<"l", "a", "y", "e", "r", ".", "0", ".", "w", "e", "i", "g", "h", "t">>

\* "LayerNorm.weight"
Name_LayerNorm_weight ==
    <<"L", "a", "y", "e", "r", "N", "o", "r", "m", ".", "w", "e", "i", "g", "h", "t">>

\* "LayerNorm.bias"
Name_LayerNorm_bias ==
    <<"L", "a", "y", "e", "r", "N", "o", "r", "m", ".", "b", "i", "a", "s">>

\* "bias_proj.weight"
Name_bias_proj_weight ==
    <<"b", "i", "a", "s", "_", "p", "r", "o", "j", ".", "w", "e", "i", "g", "h", "t">>

\* "layernorm.weight"
Name_layernorm_weight ==
    <<"l", "a", "y", "e", "r", "n", "o", "r", "m", ".", "w", "e", "i", "g", "h", "t">>

\* the names a wrapped model's parameters are drawn from
NamePool ==
    <<Name_layer_0_bias, Name_layer_0_weight, Name_LayerNorm_weight,
      Name_LayerNorm_bias, Name_bias_proj_weight, Name_layernorm_weight>>

\* the sub-lists of NamePool, in its order
NameLists ==
    {SelectSeq([k \in 1..Len(NamePool) |-> k], LAMBDA k : k \in S) :
        S \in SUBSET (1..Len(NamePool))}

\* named_parameters() of one model: some of the pool's names, in order
NamesOf(idx) == [k \in 1..Len(idx) |-> NamePool[idx[k]]]

-----------------------------------------------------------------------------
(* validation_end and the checkpoints.  A path is the sequence of its      *)
(* components.  Every replica runs validation_end in a process of its own, *)
(* on one shared filesystem; a replica's rank is trainer.proc_rank.        *)

Replicas == 0..(NumReplicas - 1)

\* what a filesystem operation can do: succeed, or fail in os.makedirs
\* (permissions, a directory another process has just created), or fail in
\* save_pretrained (disk)
IOOutcomes == {"ok", "makedirs_fails", "save_fails"}

\* f"{self.current_epoch}-{self.global_step}"
StepKey(epoch, step) == ToString(epoch) \o "-" \o ToString(step)

\* os.makedirs creates the directory and every missing parent
Prefixes(path) == {SubSeq(path, 1, k) : k \in 1..Len(path)}

\* if not os.path.exists(output_dir): os.makedirs(output_dir)
MakeDirs(output_dir, io, dirs) ==
    IF output_dir \in dirs
    THEN [raised |-> FALSE, fs |-> dirs, ops |-> <<>>]
    ELSE IF io = "makedirs_fails"
    THEN [raised |-> TRUE, fs |-> dirs,
          ops |-> <<[op |-> "makedirs", path |-> output_dir, ok |-> FALSE]>>]
    ELSE [raised |-> FALSE, fs |-> dirs \cup Prefixes(output_dir),
          ops |-> <<[op |-> "makedirs", path |-> output_dir, ok |-> TRUE]>>]

\* makedirs when missing, then model_to_save.save_pretrained(output_dir)
MakeDirsAndSave(output_dir, io, dirs) ==
    LET m == MakeDirs(output_dir, io, dirs)
    IN  IF m.raised THEN m
        ELSE [raised |-> io = "save_fails", fs |-> m.fs,
              ops |-> m.ops \o <<[op |-> "save_pretrained", path |-> output_dir,
                                  ok |-> io # "save_fails"]>>]

\* a mutant of save_model: its errors are swallowed
save_model_swallowing(save_path, name, epoch, step, io, dirs) ==
    IF save_path = None
    THEN [raised |-> FALSE, fs |-> dirs, ops |-> <<>>]
    ELSE [MakeDirsAndSave(<<save_path, name, StepKey(epoch, step)>>, io, dirs)
             EXCEPT !.raised = FALSE]

\* DiscLMTrainingModule._save_model(model, name); os.path.join raises a
\* TypeError when config.save_path is None
save_model(save_path, name, epoch, step, io, dirs) ==
    IF save_path = None
    THEN [raised |-> TRUE, fs |-> dirs, ops |-> <<>>]
    ELSE MakeDirsAndSave(<<save_path, name, StepKey(epoch, step)>>, io, dirs)

\* one step of replica r inside DiscLMTrainingModule.validation_end: the
\* filesystem effect s, then on to position next unless it raised
DiscStep(r, at, s, next) ==
    /\ module = "disc"
    /\ trainer_pc = "validation_end"
    /\ vpc[r] = at
    /\ fs' = s.fs
    /\ vlog' = [vlog EXCEPT ![r] = @ \o s.ops]
    /\ vpc' = [vpc EXCEPT ![r] = IF s.raised THEN "raised" ELSE next]
    /\ UNCHANGED <<module, config, checkpoint_fn, batch, model_ret, result,
                   calls, global_step, current_epoch, last_epoch, lr_log,
                   trainer_pc, named_parameters, optimizers>>

\* self._save_model(self.generator.base_model, 'generator')
Disc_validation_end_save_generator(r) ==
    \E io \in IOOutcomes :
        DiscStep(r, "start",
                 save_model(config.save_path, "generator", current_epoch,
                            global_step, io, fs),
                 "save_discriminator")

\* self._save_model(self.discriminator.base_model, 'discriminator')
Disc_validation_end_save_discriminator(r) ==
    \E io \in IOOutcomes :
        DiscStep(r, "save_discriminator",
                 save_model(config.save_path, "discriminator", current_epoch,
                            global_step, io, fs),
                 "makedirs")

\* output_dir = os.path.join(save_path, key), created when missing
Disc_validation_end_makedirs(r) ==
    \E io \in {"ok", "makedirs_fails"} :
        DiscStep(r, "makedirs",
                 IF config.save_path = None
                 THEN [raised |-> TRUE, fs |-> fs, ops |-> <<>>]
                 ELSE MakeDirs(<<config.save_path,
                                 StepKey(current_epoch, global_step)>>, io, fs),
                 "checkpoint_fn")

\* if self.checkpoint_fn: self.checkpoint_fn(self); the callback may raise
CallCheckpointFn(given, ok) ==
    IF given
    THEN [raised |-> ~ok, ops |-> <<[op |-> "checkpoint_fn", ok |-> ok]>>]
    ELSE [raised |-> FALSE, ops |-> <<>>]

\* the callback, then the returned averages
Disc_validation_end_checkpoint_fn(r) ==
    \E ok \in BOOLEAN :
        LET c == CallCheckpointFn(checkpoint_fn, ok)
        IN  DiscStep(r, "checkpoint_fn",
                     [raised |-> c.raised, fs |-> fs, ops |-> c.ops],
                     "returned")

\* one step of replica r inside LMTrainingModule.validation_end
LMStep(r, at, s, next) ==
    /\ module = "lm"
    /\ trainer_pc = "validation_end"
    /\ vpc[r] = at
    /\ fs' = s.fs
    /\ vlog' = [vlog EXCEPT ![r] = @ \o s.ops]
    /\ vpc' = [vpc EXCEPT ![r] = IF s.raised THEN "raised" ELSE next]
    /\ UNCHANGED <<module, config, checkpoint_fn, batch, model_ret, result,
                   calls, global_step, current_epoch, last_epoch, lr_log,
                   trainer_pc, named_parameters, optimizers>>

\* if proc_rank == 0 and config.save_on_val: save the base model under
\* save_path/key
LM_validation_end_save(r) ==
    \E io \in IOOutcomes :
        LMStep(r, "start",
               IF r = 0 /\ config.save_on_val
               THEN IF config.save_path = None
                    THEN [raised |-> TRUE, fs |-> fs, ops |-> <<>>]
                    ELSE MakeDirsAndSave(<<config.save_path,
                                           StepKey(current_epoch, global_step)>>,
                                         io, fs)
               ELSE [raised |-> FALSE, fs |-> fs, ops |-> <<>>],
               "checkpoint_fn")

\* if proc_rank == 0 and self.checkpoint_fn: the callback; then the
\* returned averages
LM_validation_end_checkpoint_fn(r) ==
    \E ok \in BOOLEAN :
        LET c == CallCheckpointFn(r = 0 /\ checkpoint_fn, ok)
        IN  LMStep(r, "checkpoint_fn",
                   [raised |-> c.raised, fs |-> fs, ops |-> c.ops],
                   "returned")

-----------------------------------------------------------------------------
(* The trainer (pytorch-lightning): it owns the counters and the           *)
(* scheduler, and drives the hooks.                                        *)

\* the interval the trainer steps a returned scheduler at: the declared
\* one, and once per epoch for a scheduler returned bare
Interval(opt) ==
    IF opt.scheduler.interval = None THEN "epoch" ELSE opt.scheduler.interval

\* after a training batch: the optimizer step, the step of a scheduler of
\* interval 'step', and the global step counted up; training ends at
\* max_steps = config.num_steps
Trainer_after_batch ==
    /\ trainer_pc = "after_batch"
    /\ global_step' = global_step + 1
    /\ last_epoch' = IF Interval(optimizers) = "step"
                     THEN last_epoch + 1 ELSE last_epoch
    /\ trainer_pc' = IF global_step + 1 >= config.num_steps
                     THEN "done" ELSE "idle"
    /\ UNCHANGED <<module, config, checkpoint_fn, batch, model_ret, result,
                   calls, current_epoch, lr_log, named_parameters,
                   optimizers, vpc, fs, vlog>>

\* an epoch boundary; every epoch holds at least one batch.  A scheduler
\* of interval 'epoch' is stepped by the trainer, by scheduler.step() or by
\* scheduler.step(epoch=current_epoch) depending on the trainer's version
Trainer_epoch_end ==
    /\ trainer_pc = "idle"
    /\ current_epoch < MaxEpochs
    /\ current_epoch < global_step
    /\ current_epoch' = current_epoch + 1
    /\ IF Interval(optimizers) = "epoch"
       THEN last_epoch' \in {last_epoch + 1, current_epoch}
       ELSE last_epoch' = last_epoch
    /\ UNCHANGED <<module, config, checkpoint_fn, batch, model_ret, result,
                   calls, global_step, lr_log, trainer_pc, named_parameters,
                   optimizers, vpc, fs, vlog>>

-----------------------------------------------------------------------------
(* Inputs.                                                                 *)

\* the shapes [B,T] of at most MaxCells positions
Shapes ==
    {sh \in (1..MaxCells) \X (1..MaxCells) : sh[1] * sh[2] <= MaxCells}

\* the tensors of shape sh with elements in S
Tensors(S, sh) == [1..sh[1] -> [1..sh[2] -> S]]

\* the tensor of shape sh filled with v
Full(sh, v) == [i \in 1..sh[1] |-> [j \in 1..sh[2] |-> v]]

\* DiscLMTrainingModuleConfig(num_steps, d_loss_weight, save_path,
\* weight_decay, warmup_steps); learning_rate and epsilon only reach Lamb
DiscConfig(weight, save_path, weight_decay, warmup) ==
    [num_steps |-> MaxSteps, d_loss_weight |-> weight, save_path |-> save_path,
     weight_decay |-> weight_decay, warmup_steps |-> warmup]

\* LMTrainingModuleConfig(num_steps, mlm, save_path, weight_decay,
\* warmup_steps, save_on_val)
LMConfig(mlm, save_path, weight_decay, warmup, save_on_val) ==
    [num_steps |-> MaxSteps, mlm |-> mlm, save_path |-> save_path,
     weight_decay |-> weight_decay, warmup_steps |-> warmup,
     save_on_val |-> save_on_val]

\* the parameters of a small model
SomeNames == <<Name_layer_0_weight, Name_layer_0_bias>>

\* a batch of one row: token 1 unmasked, then a masked position whose
\* original token is 1
SomeBatch == [inputs |-> <<<<1, 0>>>>, labels |-> <<<<Sentinel, 1>>>>]

\* the state of a module that is not training, validating or checkpointing
Quiet ==
    /\ result = [hook |-> "none", raised |-> FALSE]
    /\ calls = <<>>
    /\ lr_log = <<>>
    /\ vpc = [r \in Replicas |-> "start"]
    /\ vlog = [r \in Replicas |-> <<>>]

\* a module whose optimizers the trainer has configured, between batches
Configured ==
    /\ optimizers = IF module = "lm"
                    THEN LM_optimizers(named_parameters, config)
                    ELSE Disc_optimizers(named_parameters, config)
    /\ trainer_pc = "idle"

\* DiscLMTrainingModule on every batch of at most MaxCells positions and
\* every outcome of the sampler
InitForward ==
    /\ module = "disc"
    /\ config = DiscConfig(DefaultDLossWeight, None, 0, 0)
    /\ checkpoint_fn = FALSE
    /\ \E sh \in Shapes :
          /\ batch \in [inputs : Tensors(Vocab, sh),
                        labels : Tensors(Vocab \cup {Sentinel}, sh)]
          /\ model_ret \in [fault : {"none"}, g_loss : {1}, d_loss : {1},
                            sampled : [1..(sh[1] * sh[2]) -> Vocab],
                            d_preds : {Full(sh, 0)}]
    /\ global_step = 0
    /\ current_epoch = 0
    /\ last_epoch = 0
    /\ named_parameters = [generator |-> SomeNames, discriminator |-> SomeNames]
    /\ fs = {}
    /\ Configured
    /\ Quiet

\* DiscLMTrainingModule on one batch, with every loss, weight and fault
InitStep ==
    /\ module = "disc"
    /\ \E weight \in (0..MaxWeight) \cup {DefaultDLossWeight} :
          config = DiscConfig(weight, None, 0, 0)
    /\ checkpoint_fn = FALSE
    /\ batch = SomeBatch
    /\ model_ret \in [fault : {"none", "generator", "discriminator"},
                      g_loss : 0..MaxLoss, d_loss : 0..MaxLoss,
                      sampled : {<<0, 0>>, <<0, 1>>},
                      d_preds : {Full(<<1, 2>>, 0), Full(<<1, 2>>, 1)}]
    /\ global_step \in 0..(MaxSteps - 1)
    /\ current_epoch = 0
    /\ last_epoch = 0
    /\ named_parameters = [generator |-> SomeNames, discriminator |-> SomeNames]
    /\ fs = {}
    /\ Configured
    /\ Quiet

\* LMTrainingModule on every label and prediction tensor of at most
\* MaxCells positions
InitLM ==
    /\ module = "lm"
    /\ \E mlm \in BOOLEAN : config = LMConfig(mlm, None, 0, 0, FALSE)
    /\ checkpoint_fn = FALSE
    /\ \E sh \in Shapes :
          /\ batch \in [inputs : {Full(sh, 0)},
                        labels : Tensors(Vocab \cup {Sentinel}, sh)]
          /\ model_ret \in [fault : {"none", "model"}, loss : {1},
                            preds : Tensors(Vocab, sh)]
    /\ global_step = 0
    /\ current_epoch = 0
    /\ last_epoch = 0
    /\ named_parameters = [model |-> SomeNames]
    /\ fs = {}
    /\ Configured
    /\ Quiet

\* either module, before configure_optimizers, over the lists of names
InitOpt ==
    /\ module \in {"lm", "disc"}
    /\ \E wd \in {0, 1} :
          config = IF module = "lm"
                   THEN LMConfig(TRUE, None, wd, 0, FALSE)
                   ELSE DiscConfig(DefaultDLossWeight, None, wd, 0)
    /\ checkpoint_fn = FALSE
    /\ batch = SomeBatch
    /\ model_ret = [fault |-> "none"]
    /\ global_step = 0
    /\ current_epoch = 0
    /\ last_epoch = 0
    /\ IF module = "lm"
       THEN \E a \in NameLists : named_parameters = [model |-> NamesOf(a)]
       ELSE \E a \in NameLists, b \in NameLists :
               named_parameters = [generator |-> NamesOf(a),
                                   discriminator |-> NamesOf(b)]
    /\ optimizers = None
    /\ trainer_pc = "configure"
    /\ fs = {}
    /\ Quiet

\* either module at the start of trainer.fit
InitTrainer ==
    /\ module \in {"lm", "disc"}
    /\ \E warmup \in 0..MaxSteps :
          config = IF module = "lm"
                   THEN LMConfig(TRUE, None, 0, warmup, FALSE)
                   ELSE DiscConfig(DefaultDLossWeight, None, 0, warmup)
    /\ checkpoint_fn = FALSE
    /\ batch = SomeBatch
    /\ model_ret = IF module = "lm"
                   THEN [fault |-> "none", loss |-> 1, preds |-> <<<<0, 1>>>>]
                   ELSE [fault |-> "none", g_loss |-> 1, d_loss |-> 1,
                         sampled |-> <<0, 1>>, d_preds |-> <<<<0, 1>>>>]
    /\ global_step = 0
    /\ current_epoch = 0
    /\ last_epoch = 0
    /\ named_parameters = IF module = "lm"
                          THEN [model |-> SomeNames]
                          ELSE [generator |-> SomeNames,
                                discriminator |-> SomeNames]
    /\ optimizers = None
    /\ trainer_pc = "configure"
    /\ fs = {}
    /\ Quiet

\* the directories a validation_end of this state can create
CheckpointDirs(save_path, epoch, step) ==
    UNION {Prefixes(<<save_path, name, StepKey(epoch, step)>>) :
              name \in {"generator", "discriminator"}}
    \cup Prefixes(<<save_path, StepKey(epoch, step)>>)

\* every replica at the start of validation_end, for either module
InitCkpt ==
    /\ module \in {"lm", "disc"}
    /\ \E save_path \in {None, "electra-small"}, save_on_val \in BOOLEAN :
          config = IF module = "lm"
                   THEN LMConfig(TRUE, save_path, 0, 0, save_on_val)
                   ELSE DiscConfig(DefaultDLossWeight, save_path, 0, 0)
    /\ checkpoint_fn \in BOOLEAN
    /\ batch = SomeBatch
    /\ model_ret = [fault |-> "none"]
    /\ global_step \in 0..MaxSteps
    /\ current_epoch \in 0..MaxEpochs
    /\ last_epoch = 0
    /\ named_parameters = IF module = "lm"
                          THEN [model |-> SomeNames]
                          ELSE [generator |-> SomeNames,
                                discriminator |-> SomeNames]
    /\ optimizers = IF module = "lm"
                    THEN LM_optimizers(named_parameters, config)
                    ELSE Disc_optimizers(named_parameters, config)
    /\ trainer_pc = "validation_end"
    /\ fs \in {{}, CheckpointDirs("electra-small", current_epoch, global_step)}
    /\ Quiet

-----------------------------------------------------------------------------
(* Specifications.                                                         *)

NextForward ==
    \/ Disc_training_step
    \/ Disc_validation_step

NextLM ==
    \/ LM_training_step
    \/ LM_validation_step

NextOpt ==
    \/ LM_configure_optimizers
    \/ Disc_configure_optimizers

NextTrainer ==
    \/ LM_configure_optimizers
    \/ Disc_configure_optimizers
    \/ LM_training_step
    \/ Disc_training_step
    \/ LM_validation_step
    \/ Disc_validation_step
    \/ Trainer_after_batch
    \/ Trainer_epoch_end

NextCkpt ==
    \E r \in Replicas :
        \/ Disc_validation_end_save_generator(r)
        \/ Disc_validation_end_save_discriminator(r)
        \/ Disc_validation_end_makedirs(r)
        \/ Disc_validation_end_checkpoint_fn(r)
        \/ LM_validation_end_save(r)
        \/ LM_validation_end_checkpoint_fn(r)

\* forward on every small batch
SpecForward == InitForward /\ [][NextForward]_vars

\* the training and validation steps of DiscLMTrainingModule
SpecStep == InitStep /\ [][NextForward]_vars

\* the training and validation steps of LMTrainingModule
SpecLM == InitLM /\ [][NextLM]_vars

\* configure_optimizers
SpecOpt == InitOpt /\ [][NextOpt]_vars

\* the trainer's loop
SpecTrainer == InitTrainer /\ [][NextTrainer]_vars

\* validation_end on every replica
SpecCkpt == InitCkpt /\ [][NextCkpt]_vars

Spec == SpecTrainer

-----------------------------------------------------------------------------
(* Properties.                                                             *)

\* the positions of a tensor
Pos(t) == UNION {{<<i, j>> : j \in DOMAIN t[i]} : i \in DOMAIN t}

\* the element of t at position p
At(t, p) == t[p[1]][p[2]]

\* a step of DiscLMTrainingModule has returned
DiscStepReturned ==
    /\ module = "disc"
    /\ result.hook \in {"training_step", "validation_step"}
    /\ ~result.raised

\* a step of LMTrainingModule has returned
LMStepReturned ==
    /\ module = "lm"
    /\ result.hook \in {"training_step", "validation_step"}
    /\ ~result.raised

\* the token the sampler drew at position p of the batch
SampledAt(p) == model_ret.sampled[(p[1] - 1) * Len(batch.labels[1]) + p[2]]

\* C1: the discriminator target returned by forward is 1 exactly at the
\* positions whose label is not -100 (the originally masked positions) and
\* 0 at the positions whose label is -100, whatever the sampler drew.
C1_TargetMarksMaskedPositions ==
    DiscStepReturned =>
        \A p \in Pos(batch.labels) :
            At(result.d_labels, p) =
                IF At(batch.labels, p) # Sentinel THEN 1 ELSE 0

\* C2: the input handed to the discriminator holds the original token where
\* the label is -100 and the sampled token where the label is not -100.
C2_SampledTokenAtMaskedPositions ==
    DiscStepReturned =>
        \A p \in Pos(batch.labels) :
            At(calls[2].inputs, p) =
                IF At(batch.labels, p) = Sentinel
                THEN At(batch.inputs, p) ELSE SampledAt(p)

\* C3: forward leaves the caller's input and label tensors as they were:
\* every step of the module keeps the batch unchanged.
C3_ForwardKeepsCallerTensors == [][batch' = batch]_vars

\* C3 witness: a step returned after forward wrote a sampled token into the
\* discriminator's input and a 0 into the copy of the labels.
C3_Witness ==
    /\ DiscStepReturned
    /\ calls[2].inputs # batch.inputs
    /\ \E p \in Pos(batch.labels) :
          At(batch.labels, p) = SampledAt(p) /\ At(batch.labels, p) # 0

\* C4: the total loss of training_step and validation_step is
\* g_loss + d_loss_weight * d_loss, and g_loss alone when the weight is 0.
C4_TotalLossIsWeightedSum ==
    DiscStepReturned =>
        /\ result.loss = model_ret.g_loss + config.d_loss_weight * model_ret.d_loss
        /\ config.d_loss_weight = 0 => result.loss = model_ret.g_loss

\* C4 witness: a training step returned with weight 0 and a discriminator
\* loss that is not 0.
C4_Witness ==
    /\ DiscStepReturned
    /\ result.hook = "training_step"
    /\ config.d_loss_weight = 0
    /\ model_ret.d_loss > 0
    /\ model_ret.g_loss > 0

\* the positions of the batch whose label is not the sentinel
Counted == {p \in Pos(batch.labels) : At(batch.labels, p) # Sentinel}

\* C5: the accuracy of LMTrainingModule's steps is the number of counted
\* positions (label # -100) predicted right over the number of counted
\* positions, and predictions that differ only at positions of label -100
\* give the same accuracy.
C5_AccuracyOverCountedPositions ==
    LMStepReturned =>
        LET right == {p \in Counted : At(model_ret.preds, p) = At(batch.labels, p)}
            shape == <<Len(batch.labels), Len(batch.labels[1])>>
        IN  /\ Counted # {} =>
                 /\ result.acc[2] > 0
                 /\ result.acc[1] * Cardinality(Counted)
                        = Cardinality(right) * result.acc[2]
            /\ \A alt \in Tensors(Vocab, shape) :
                   (\A p \in Counted : At(alt, p) = At(model_ret.preds, p))
                       => LM_accuracy(alt, batch.labels) = result.acc

\* C5 witness: a training step returned with one of two counted positions
\* right and a position of label -100 beside them.
C5_Witness ==
    /\ LMStepReturned
    /\ result.hook = "training_step"
    /\ result.acc = <<1, 2>>
    /\ Counted # Pos(batch.labels)

\* C6: when every label is -100 the steps of LMTrainingModule raise instead
\* of returning an accuracy.
C6_AllSentinelRaises ==
    (/\ module = "lm"
     /\ result.hook \in {"training_step", "validation_step"}
     /\ Counted = {})
        => result.raised

\* the names of the pool that contain "bias" or "LayerNorm.weight"
MarkedNames ==
    {Name_layer_0_bias, Name_LayerNorm_weight, Name_LayerNorm_bias,
     Name_bias_proj_weight}

\* how often parameter p occurs in group g
Occurrences(g, p) ==
    Cardinality({k \in 1..Len(optimizers.groups[g].params) :
                    optimizers.groups[g].params[k] = p})

\* the parameters of the wrapped models
NamedParams ==
    UNION {{<<m, named_parameters[m][k]>> : k \in 1..Len(named_parameters[m])} :
              m \in DOMAIN named_parameters}

\* C7: configure_optimizers puts every named parameter in exactly one of
\* the two groups: in the second, of weight decay 0, when its name contains
\* "bias" or "LayerNorm.weight", and else in the first, of weight decay
\* config.weight_decay.
C7_GroupsPartitionByName ==
    trainer_pc # "configure" =>
        /\ Len(optimizers.groups) = 2
        /\ optimizers.groups[1].weight_decay = config.weight_decay
        /\ optimizers.groups[2].weight_decay = 0
        /\ \A p \in NamedParams :
              /\ Occurrences(1, p) + Occurrences(2, p) = 1
              /\ Occurrences(2, p) = 1 <=> p[2] \in MarkedNames
        /\ \A g \in 1..2 : \A k \in 1..Len(optimizers.groups[g].params) :
              optimizers.groups[g].params[k] \in NamedParams

\* C7 witness: the optimizers of a DiscLMTrainingModule with weight decay,
\* "layer.0.bias" in the generator and "layer.0.weight" in the discriminator.
C7_Witness ==
    /\ trainer_pc # "configure"
    /\ module = "disc"
    /\ config.weight_decay = 1
    /\ <<"generator", Name_layer_0_bias>> \in NamedParams
    /\ <<"generator", Name_bias_proj_weight>> \in NamedParams
    /\ <<"discriminator", Name_layer_0_weight>> \in NamedParams
    /\ Occurrences(2, <<"generator", Name_layer_0_bias>>) = 1
    /\ Occurrences(1, <<"discriminator", Name_layer_0_weight>>) = 1

\* the filesystem writes replica r made or tried
Writes(r) ==
    {k \in 1..Len(vlog[r]) : vlog[r][k].op \in {"makedirs", "save_pretrained"}}

\* C8: in both modules only the replica of rank 0 creates checkpoint
\* directories and writes weights, so no two replicas write the same path.
C8_OnlyRankZeroWrites ==
    /\ \A r \in Replicas : r # 0 => Writes(r) = {}
    /\ \A r1 \in Replicas, r2 \in Replicas :
          r1 # r2 =>
              {vlog[r1][k].path : k \in Writes(r1)}
                  \cap {vlog[r2][k].path : k \in Writes(r2)} = {}

\* the index of the successful save of replica r to path, or 0
SavedAt(r, path) ==
    LET ks == {k \in 1..Len(vlog[r]) :
                  /\ vlog[r][k].op = "save_pretrained"
                  /\ vlog[r][k].ok
                  /\ vlog[r][k].path = path}
    IN  IF ks = {} THEN 0 ELSE CHOOSE k \in ks : TRUE

\* C9: in DiscLMTrainingModule.validation_end the callback is invoked at
\* most once, only after the generator was saved under
\* save_path/generator/<epoch>-<global_step> and the discriminator under
\* save_path/discriminator/<epoch>-<global_step>, and never after a failed
\* operation or with save_path missing.
C9_CallbackAfterBothSaves ==
    module = "disc" =>
        \A r \in Replicas :
            LET log == vlog[r]
                cbs == {k \in 1..Len(log) : log[k].op = "checkpoint_fn"}
                key == StepKey(current_epoch, global_step)
                gen == SavedAt(r, <<config.save_path, "generator", key>>)
                dis == SavedAt(r, <<config.save_path, "discriminator", key>>)
            IN  /\ Cardinality(cbs) <= 1
                /\ \A k \in cbs :
                      /\ config.save_path # None
                      /\ 0 < gen /\ gen < dis /\ dis < k
                      /\ \A j \in 1..(k - 1) : log[j].ok
                /\ vpc[r] \in {"makedirs", "checkpoint_fn", "returned"}
                      => 0 < gen /\ gen < dis

\* C9 witness: a replica returned from validation_end after the callback.
C9_Witness ==
    /\ module = "disc"
    /\ \E r \in Replicas :
          /\ vpc[r] = "returned"
          /\ \E k \in 1..Len(vlog[r]) :
                vlog[r][k].op = "checkpoint_fn" /\ vlog[r][k].ok
    /\ \E r \in Replicas :
          /\ vpc[r] = "raised"
          /\ \E k \in 1..Len(vlog[r]) :
                vlog[r][k].op = "save_pretrained" /\ ~vlog[r][k].ok

LoggedAt(g, rate) ==
    [i \in 1..Len(optimizers.groups) |->
        [tag |-> <<"lr", i - 1>>, value |-> rate, step |-> g]]

C11_FailedStepPropagates ==
    [][(Disc_training_step /\ model_ret.fault # "none") =>
          /\ result' = [hook |-> "training_step", raised |-> TRUE]
          /\ "loss" \notin DOMAIN result'
          /\ last_epoch' = last_epoch
          /\ lr_log' = lr_log
          /\ trainer_pc' = "raised"
          /\ model_ret.fault = "generator" =>
                /\ Len(calls') = 1
                /\ calls'[1].model = "generator"
          /\ model_ret.fault = "discriminator" =>
                /\ Len(calls') = 2
                /\ calls'[1].model = "generator"
                /\ calls'[2].model = "discriminator"]_vars

\* a training_step past the first optimizer step has failed in the generator
C11_Witness ==
    /\ module = "disc"
    /\ result = [hook |-> "training_step", raised |-> TRUE]
    /\ model_ret.fault = "generator"
    /\ trainer_pc = "raised"
    /\ global_step > 0
    /\ Len(calls) = 1
    /\ lr_log = <<>>

=============================================================================
